---------------------------- MODULE Spec2Model ----------------------------
(***************************************************************************)
(* A model of src/app.py: the photo-intake service.  One background worker *)
(* (worker_process) lists the images of a Drive folder, sends each to the  *)
(* vision API, parses the answer (parse_yandex_result), appends a row to a *)
(* sheet and moves the file; /start launches a worker, /status reads the   *)
(* shared progress state.                                                  *)
(*                                                                         *)
(* Python strings are sequences of one-character strings, so that strip,   *)
(* lower, find and the catalog regular expression are computed character   *)
(* by character.  JSON values are tagged records.                          *)
(***************************************************************************)
EXTENDS Integers, Sequences, FiniteSets, TLC

VARIABLES
    state,          \* the module-level dict `state` (without its logs)
    workerThread,   \* _worker_thread: 0 is None, else a Thread object
    nThreads,       \* Thread objects constructed so far
    hpc,            \* where each /start request is, or how it was answered
    statusResp,     \* the last /status response
    pc,             \* where each worker thread is
    files,          \* worker local `files`
    bi,             \* worker local `i` of range(0, total, BATCH_SIZE)
    bk,             \* position of `f` in `batch` (1-based)
    parsed,         \* worker local `parsed`
    toAnalyze,      \* Drive: the files in the TO_ANALYZE folder
    trace,          \* per worker: the collaborator calls it made, in order
    arg,            \* the argument of a direct parse_yandex_result call
    result,         \* what that call returned (or that it raised)
    vision,         \* the answers the vision API gives in this run
    logs,           \* state["logs"], as the append_log calls made directly
                    \* leave it (the worker's own log lines are left out)
    nLog            \* append_log calls made directly so far

vars == << state, workerThread, nThreads, hpc, statusResp, pc, files,
           bi, bk, parsed, toAnalyze, trace, arg, result, vision, logs, nLog >>

(***************************************************************************)
(* Bounds of the model.                                                    *)
(***************************************************************************)
MaxFiles == 5       \* images in the folder at most, one run alone
MaxRaceFiles == 2   \* images in the folder at most, concurrent requests
MaxPollFiles == 1   \* images in the folder at most, with /status polled
MaxRequests == 2    \* POST /start requests made at most
MaxBareFiles == 3   \* images at most, when the API may see nothing in one
MaxLogCalls == 3    \* append_log calls made directly at most

\* BATCH_SIZE = int(os.getenv("BATCH_SIZE", "2"))
BATCH_SIZE == 2

\* append_log: if len(state["logs"]) > 1000: state["logs"] = state["logs"][-800:]
LOG_LIMIT == 1000
LOG_KEEP == 800

\* status: state["logs"][-200:]
STATUS_LINES == 200

(***************************************************************************)
(* Python strings.                                                         *)
(***************************************************************************)
Upper == << "A","B","C","D","E","F","G","H","I","J","K","L","M",
            "N","O","P","Q","R","S","T","U","V","W","X","Y","Z" >>
Lower == << "a","b","c","d","e","f","g","h","i","j","k","l","m",
            "n","o","p","q","r","s","t","u","v","w","x","y","z" >>
Digits == {"0","1","2","3","4","5","6","7","8","9"}
Whitespace == {" ", "\t", "\n", "\r"}

Range(s) == {s[j] : j \in 1..Len(s)}

\* str.lower() on one character
LowerChar(c) ==
    IF c \in Range(Upper)
    THEN Lower[CHOOSE j \in 1..26 : Upper[j] = c]
    ELSE c

\* str.lower()
StrLower(s) == [j \in 1..Len(s) |-> LowerChar(s[j])]

\* str.find(sub) >= 0
StrContains(s, sub) ==
    \E p \in 0..(Len(s) - Len(sub)) :
        \A q \in 1..Len(sub) : s[p + q] = sub[q]

\* str.strip()
StrStrip(s) ==
    LET keep == {j \in 1..Len(s) : s[j] \notin Whitespace}
    IN  IF keep = {} THEN << >>
        ELSE LET lo == CHOOSE j \in keep : \A q \in keep : j <= q
                 hi == CHOOSE j \in keep : \A q \in keep : q <= j
             IN  SubSeq(s, lo, hi)

\* the character class [A-Z0-9\-] under re.I
IsCatalogChar(c) ==
    c \in Range(Upper) \cup Range(Lower) \cup Digits \cup {"-"}

\* re.search(r"[A-Z0-9\-]{4,}", t, re.I): the leftmost match, as long as it
\* goes; << >> when there is none
RegexSearch(s) ==
    LET starts == {p \in 1..(Len(s) - 3) :
                       \A q \in p..(p + 3) : IsCatalogChar(s[q])}
    IN  IF starts = {} THEN << >>
        ELSE LET p == CHOOSE a \in starts : \A b \in starts : a <= b
                 ends == {e \in (p + 3)..Len(s) :
                              \A q \in p..e : IsCatalogChar(s[q])}
                 e == CHOOSE a \in ends : \A b \in ends : b <= a
             IN  SubSeq(s, p, e)

\* the string literals of parse_yandex_result
K_results == << "r","e","s","u","l","t","s" >>
K_responses == << "r","e","s","p","o","n","s","e","s" >>
K_entities == << "e","n","t","i","t","i","e","s" >>
K_labels == << "l","a","b","e","l","s" >>
K_description == << "d","e","s","c","r","i","p","t","i","o","n" >>
K_name == << "n","a","m","e" >>
K_textDetection == << "t","e","x","t","D","e","t","e","c","t","i","o","n" >>
K_text == << "t","e","x","t" >>
K_objects == << "o","b","j","e","c","t","s" >>
K_entityId == << "e","n","t","i","t","y","I","d" >>
K_annotations == << "a","n","n","o","t","a","t","i","o","n","s" >>
K_type == << "t","y","p","e" >>
V_LABEL == << "L","A","B","E","L" >>
V_UNKNOWN == << "U","N","K","N","O","W","N" >>
CommaSpace == << ",", " " >>

(***************************************************************************)
(* JSON values, as json.loads returns them.                                *)
(***************************************************************************)
JNull == [t |-> "null"]
JBool(b) == [t |-> "bool", b |-> b]
JNum(n) == [t |-> "num", n |-> n]
JStr(s) == [t |-> "str", s |-> s]
JList(xs) == [t |-> "list", xs |-> xs]
\* a dict is the sequence of its <<key, value>> pairs, keys distinct
JDict(kv) == [t |-> "dict", kv |-> kv]

\* bool(v)
Truthy(v) ==
    CASE v.t = "null" -> FALSE
      [] v.t = "bool" -> v.b
      [] v.t = "num"  -> v.n # 0
      [] v.t = "str"  -> v.s # << >>
      [] v.t = "list" -> v.xs # << >>
      [] v.t = "dict" -> v.kv # << >>

\* a or b
PyOr(a, b) == IF Truthy(a) THEN a ELSE b

HasKey(d, k) == \E j \in 1..Len(d.kv) : d.kv[j][1] = k

\* d.get(k, dflt) of a dict d
DictGet(d, k, dflt) ==
    IF HasKey(d, k)
    THEN d.kv[CHOOSE j \in 1..Len(d.kv) : d.kv[j][1] = k][2]
    ELSE dflt

\* whether `for x in v` works, and what it yields
Iterable(v) == v.t \in {"list", "dict", "str"}
IterItems(v) ==
    CASE v.t = "list" -> v.xs
      [] v.t = "dict" -> [j \in 1..Len(v.kv) |-> JStr(v.kv[j][1])]
      [] v.t = "str"  -> [j \in 1..Len(v.s) |-> JStr(<< v.s[j] >>)]

\* whether `k in v` works (else TypeError), and its value
InDefined(v) == v.t \in {"list", "dict", "str"}
PyIn(k, v) ==
    CASE v.t = "dict" -> HasKey(v, k)
      [] v.t = "list" -> \E j \in 1..Len(v.xs) : v.xs[j] = JStr(k)
      [] v.t = "str"  -> StrContains(v.s, k)

(***************************************************************************)
(* parse_yandex_result.  The try block (lines 168-201) is a fold over the  *)
(* nested lists with an accumulator [labels, texts, objects, exc]: once    *)
(* exc is set (an exception was raised and caught at line 199) the rest of *)
(* the block is skipped and what was collected before stays.               *)
(***************************************************************************)
EmptyAcc == [labels |-> << >>, texts |-> << >>, objects |-> << >>, exc |-> FALSE]

Raise(acc) == [acc EXCEPT !.exc = TRUE]

\* lines 177-180: one `lab` of it["labels"]
ScanLabel(lab, acc) ==
    IF lab.t # "dict" THEN Raise(acc)
    ELSE LET desc == PyOr(DictGet(lab, K_description, JNull),
                          DictGet(lab, K_name, JNull))
         IN  IF Truthy(desc)
             THEN [acc EXCEPT !.labels = Append(@, desc)]
             ELSE acc

\* lines 190-193: one `obj` of it["objects"]
ScanObject(obj, acc) ==
    IF obj.t # "dict" THEN Raise(acc)
    ELSE LET name == PyOr(DictGet(obj, K_name, JNull),
                          DictGet(obj, K_entityId, JNull))
         IN  IF Truthy(name)
             THEN [acc EXCEPT !.objects = Append(@, name)]
             ELSE acc

\* lines 196-198: one `ann` of it["annotations"]
ScanAnnotation(ann, acc) ==
    IF ann.t # "dict" THEN Raise(acc)
    ELSE IF DictGet(ann, K_type, JNull) = JStr(V_LABEL)
         THEN [acc EXCEPT !.labels =
                   Append(@, DictGet(ann, K_description, JStr(<< >>)))]
         ELSE acc

RECURSIVE FoldLabels(_, _, _)
FoldLabels(xs, j, acc) ==
    IF acc.exc \/ j > Len(xs) THEN acc
    ELSE FoldLabels(xs, j + 1, ScanLabel(xs[j], acc))

RECURSIVE FoldObjects(_, _, _)
FoldObjects(xs, j, acc) ==
    IF acc.exc \/ j > Len(xs) THEN acc
    ELSE FoldObjects(xs, j + 1, ScanObject(xs[j], acc))

RECURSIVE FoldAnnotations(_, _, _)
FoldAnnotations(xs, j, acc) ==
    IF acc.exc \/ j > Len(xs) THEN acc
    ELSE FoldAnnotations(xs, j + 1, ScanAnnotation(xs[j], acc))

\* lines 176-180: if "labels" in it: for lab in it["labels"]
ItLabels(it, acc) ==
    IF acc.exc THEN acc
    ELSE IF ~InDefined(it) THEN Raise(acc)
    ELSE IF ~PyIn(K_labels, it) THEN acc
    ELSE IF it.t # "dict" THEN Raise(acc)
    ELSE LET labs == DictGet(it, K_labels, JNull)
         IN  IF ~Iterable(labs) THEN Raise(acc)
             ELSE FoldLabels(IterItems(labs), 1, acc)

\* lines 182-187: if "textDetection" in it
ItText(it, acc) ==
    IF acc.exc THEN acc
    ELSE IF ~InDefined(it) THEN Raise(acc)
    ELSE IF ~PyIn(K_textDetection, it) THEN acc
    ELSE IF it.t # "dict" THEN Raise(acc)
    ELSE LET td == DictGet(it, K_textDetection, JNull)
         IN  IF td.t # "dict" THEN acc
             ELSE LET s == DictGet(td, K_text, JStr(<< >>))
                  IN  IF Truthy(s)
                      THEN [acc EXCEPT !.texts = Append(@, s)]
                      ELSE acc

\* lines 189-193: if "objects" in it: for obj in it["objects"]
ItObjects(it, acc) ==
    IF acc.exc THEN acc
    ELSE IF ~InDefined(it) THEN Raise(acc)
    ELSE IF ~PyIn(K_objects, it) THEN acc
    ELSE IF it.t # "dict" THEN Raise(acc)
    ELSE LET objs == DictGet(it, K_objects, JNull)
         IN  IF ~Iterable(objs) THEN Raise(acc)
             ELSE FoldObjects(IterItems(objs), 1, acc)

\* lines 195-198: if "annotations" in it: for ann in it["annotations"]
ItAnnotations(it, acc) ==
    IF acc.exc THEN acc
    ELSE IF ~InDefined(it) THEN Raise(acc)
    ELSE IF ~PyIn(K_annotations, it) THEN acc
    ELSE IF it.t # "dict" THEN Raise(acc)
    ELSE LET anns == DictGet(it, K_annotations, JNull)
         IN  IF ~Iterable(anns) THEN Raise(acc)
             ELSE FoldAnnotations(IterItems(anns), 1, acc)

\* lines 175-198: the body of `for it in inner`
ScanIt(it, acc) ==
    ItAnnotations(it, ItObjects(it, ItText(it, ItLabels(it, acc))))

RECURSIVE FoldInner(_, _, _)
FoldInner(xs, j, acc) ==
    IF acc.exc \/ j > Len(xs) THEN acc
    ELSE FoldInner(xs, j + 1, ScanIt(xs[j], acc))

\* lines 171-198: the body of `for r in top_results`
ScanResult(r, acc) ==
    IF r.t # "dict" THEN Raise(acc)
    ELSE LET inner == PyOr(PyOr(DictGet(r, K_results, JNull),
                                DictGet(r, K_entities, JNull)),
                           JList(<< >>))
         IN  IF ~Iterable(inner) THEN Raise(acc)
             ELSE FoldInner(IterItems(inner), 1, acc)

RECURSIVE FoldTop(_, _, _)
FoldTop(xs, j, acc) ==
    IF acc.exc \/ j > Len(xs) THEN acc
    ELSE FoldTop(xs, j + 1, ScanResult(xs[j], acc))

\* lines 168-201: the try block
TryBlock(resp) ==
    IF resp.t # "dict" THEN Raise(EmptyAcc)
    ELSE LET top_results == PyOr(PyOr(DictGet(resp, K_results, JNull),
                                      DictGet(resp, K_responses, JNull)),
                                 JList(<< >>))
         IN  IF ~Iterable(top_results) THEN Raise(EmptyAcc)
             ELSE FoldTop(IterItems(top_results), 1, EmptyAcc)

\* lines 204-213: walk_for_text, as the texts it appends, in order
RECURSIVE walk_for_text(_)
RECURSIVE WalkPairs(_, _)
RECURSIVE WalkList(_, _)
walk_for_text(d) ==
    CASE d.t = "dict" -> WalkPairs(d.kv, 1)
      [] d.t = "list" -> WalkList(d.xs, 1)
      [] OTHER -> << >>
WalkPairs(kv, j) ==
    IF j > Len(kv) THEN << >>
    ELSE LET k == kv[j][1]
             v == kv[j][2]
             here == IF /\ StrContains(StrLower(k), K_text)
                        /\ v.t = "str"
                        /\ StrStrip(v.s) # << >>
                     THEN << JStr(StrStrip(v.s)) >>
                     ELSE walk_for_text(v)
         IN  here \o WalkPairs(kv, j + 1)
WalkList(xs, j) ==
    IF j > Len(xs) THEN << >>
    ELSE walk_for_text(xs[j]) \o WalkList(xs, j + 1)

\* [x for x in xs if x]
FilterTruthy(xs) == SelectSeq(xs, Truthy)

\* xs[:n]
Take(xs, n) == SubSeq(xs, 1, IF Len(xs) < n THEN Len(xs) ELSE n)

\* ", ".join(xs) for a list of str; TypeError when an element is no str
JoinDefined(xs) == \A j \in 1..Len(xs) : xs[j].t = "str"
RECURSIVE Join(_)
Join(xs) ==
    IF xs = << >> THEN << >>
    ELSE IF Len(xs) = 1 THEN xs[1].s
    ELSE xs[1].s \o CommaSpace \o Join(Tail(xs))

\* lines 232-240: the catalog loop over texts.  re.search raises TypeError on
\* a text that is no str; the loop ends at the first match.
RECURSIVE CatalogLoop(_, _)
CatalogLoop(texts, j) ==
    IF j > Len(texts) THEN [exc |-> FALSE, catalog |-> JStr(V_UNKNOWN)]
    ELSE IF texts[j].t # "str" THEN [exc |-> TRUE, catalog |-> JStr(V_UNKNOWN)]
    ELSE LET candidate == RegexSearch(texts[j].s)
         IN  IF candidate # << >> /\ Len(candidate) >= 4
             THEN [exc |-> FALSE, catalog |-> JStr(candidate)]
             ELSE CatalogLoop(texts, j + 1)

\* lines 152-160
AllUnknown ==
    [catalog_number |-> JStr(V_UNKNOWN), description |-> JStr(V_UNKNOWN),
     machine_type |-> JStr(V_UNKNOWN), manufacturer |-> JStr(V_UNKNOWN),
     analogs |-> JStr(V_UNKNOWN), detail_description |-> JStr(V_UNKNOWN),
     machine_model |-> JStr(V_UNKNOWN)]

\* what parse_yandex_result(resp_json) does: [exc |-> TRUE] when it raises,
\* else [exc |-> FALSE, rec |-> the dict it returns]
ParseOutcome(resp) ==
    IF ~Truthy(resp) THEN [exc |-> FALSE, rec |-> AllUnknown]
    ELSE
    LET acc == TryBlock(resp)
        labels == FilterTruthy(acc.labels)
        texts == FilterTruthy(acc.texts \o walk_for_text(resp))
        objects == FilterTruthy(acc.objects)
    IN  IF ~JoinDefined(Take(labels, 3)) THEN [exc |-> TRUE]
        ELSE
        LET joined == Join(Take(labels, 3))
            description == IF joined # << >> THEN JStr(joined)
                           ELSE JStr(V_UNKNOWN)
            machine_type == IF objects # << >> THEN objects[1]
                            ELSE JStr(V_UNKNOWN)
            detail_description ==
                PyOr(IF texts # << >> THEN texts[1] ELSE JStr(<< >>),
                     description)
            cat == CatalogLoop(texts, 1)
        IN  IF cat.exc THEN [exc |-> TRUE]
            ELSE [exc |-> FALSE,
                  rec |-> [catalog_number |-> cat.catalog,
                           description |-> description,
                           machine_type |-> machine_type,
                           manufacturer |-> JStr(V_UNKNOWN),
                           analogs |-> JStr(V_UNKNOWN),
                           detail_description |-> detail_description,
                           machine_model |-> JStr(V_UNKNOWN)]]

\* whether parse_yandex_result(resp) raises, and what it returns when not
ParseRaises(resp) == ParseOutcome(resp).exc
parse_yandex_result(resp) == ParseOutcome(resp).rec

(***************************************************************************)
(* The service.  A file is the number of its place in the folder; the      *)
(* empty current_file "" is 0.  state["error"] is None or the message.     *)
(***************************************************************************)
Requests == 1..MaxRequests
\* a request constructs one Thread at most
Threads == 1..MaxRequests
None == "None"

Min(a, b) == IF a < b THEN a ELSE b

\* lines 34-42: the module-level state
InitialState ==
    [total |-> 0, processed |-> 0, current_file |-> 0, done |-> FALSE,
     error |-> None]

\* Thread.is_alive(): started and run() not yet ended
DeadPcs == {"fatal", "nofiles", "finished", "crashed"}
Alive(t) == pc[t] \notin ({"none", "created"} \cup DeadPcs)

\* what drive.files().list returns: the folder's files in their order
RECURSIVE Listing(_)
Listing(S) ==
    IF S = {} THEN << >>
    ELSE LET m == CHOOSE a \in S : \A b \in S : a <= b
         IN  << m >> \o Listing(S \ {m})

\* a response of the vision API with labels, a text and an object
RespFull ==
    JDict(<< << K_results, JList(<< JDict(<< << K_results, JList(<<
        JDict(<< << K_labels, JList(<< JDict(<< << K_description,
                        JStr(<< "p","u","m","p" >>) >> >>) >>) >>,
                 << K_textDetection, JDict(<< << K_text,
                        JStr(<< "N","o"," ","A","B","-","1","2" >>) >> >>) >>,
                 << K_objects, JList(<< JDict(<< << K_name,
                        JStr(<< "g","e","a","r" >>) >> >>) >>) >> >>)
        >>) >> >>) >>) >> >>)

\* a response whose label description is a number
RespNumLabel ==
    JDict(<< << K_results, JList(<< JDict(<< << K_results, JList(<<
        JDict(<< << K_labels, JList(<< JDict(<< << K_description,
                        JNum(5) >> >>) >>) >> >>)
        >>) >> >>) >>) >> >>)

\* a successful response in which the API recognised nothing
RespBare ==
    JDict(<< << K_results, JList(<< JDict(<< << K_results, JList(<<
        JDict(<< << K_labels, JList(<< >>) >> >>)
        >>) >> >>) >>) >> >>)

\* the responses call_yandex_vision returns in the model
SampleResponses == {RespFull, RespNumLabel}

\* the same when an image may show nothing the API recognises
BareResponses == SampleResponses \cup {RespBare}

\* parse_yandex_result on each of them
ParseOf == [r \in BareResponses |-> ParseOutcome(r)]

\* lines 352-361: the row of a record; its last column is the file's URL
Row(rec, f) ==
    << rec.catalog_number, rec.description, rec.machine_type,
       rec.manufacturer, rec.analogs, rec.detail_description,
       rec.machine_model, f >>

\* a collaborator call: download, submit, append, move, count (the item is
\* added to state["processed"]) or pause (time.sleep), the file it was for,
\* whether it succeeded and, for an append, the row handed over
Event(op, f, ok) == [op |-> op, f |-> f, ok |-> ok, row |-> << >>]
Log(t, e) == [trace EXCEPT ![t] = Append(@, e)]

\* s[-n:] of a list s, n > 0
Last(s, n) == IF Len(s) > n THEN SubSeq(s, Len(s) - n + 1, Len(s)) ELSE s

\* line = f"[{ts}] {text}": ts is the place of the call in time
LogLine(ts, text) == [ts |-> ts, text |-> text]

\* the service with a log of `lines`, and at most n images in the folder
InitService(n, answers, lines) ==
    /\ state = InitialState
    /\ vision = answers
    /\ logs = lines
    /\ nLog = 0
    /\ workerThread = 0
    /\ nThreads = 0
    /\ hpc = [h \in Requests |-> "idle"]
    /\ statusResp = [code |-> 0]
    /\ pc = [t \in Threads |-> "none"]
    /\ files = [t \in Threads |-> << >>]
    /\ bi = [t \in Threads |-> 0]
    /\ bk = [t \in Threads |-> 1]
    /\ parsed = [t \in Threads |-> AllUnknown]
    /\ \E m \in 0..n : toAnalyze = 1..m
    /\ trace = [t \in Threads |-> << >>]

\* the service after import
InitVision(n, answers) == InitService(n, answers, << >>)

InitWith(n) == InitVision(n, SampleResponses)

\* no direct call of parse_yandex_result
NoCall ==
    /\ arg = JNull
    /\ result = [called |-> FALSE]

Init == InitWith(MaxRaceFiles) /\ NoCall
InitSeq == InitWith(MaxFiles) /\ NoCall
InitPoll == InitWith(MaxPollFiles) /\ NoCall
InitBare == InitVision(MaxBareFiles, BareResponses) /\ NoCall

(***************************************************************************)
(* POST /start, lines 412-422.  The lock covers the check and the reset    *)
(* only; the Thread is constructed, stored and started after it.           *)
(***************************************************************************)
\* lines 415-417
StartReject(h) ==
    /\ hpc[h] = "idle"
    /\ workerThread # 0 /\ Alive(workerThread)
    /\ hpc' = [hpc EXCEPT ![h] = "already_running"]
    /\ UNCHANGED << state, workerThread, nThreads, statusResp, pc, files,
                    bi, bk, parsed, toAnalyze, trace, arg, result,
                    vision, logs, nLog >>

\* StartReset with the error of the last run left in place
StartResetKeepsError(h) ==
    /\ hpc[h] = "idle"
    /\ ~(workerThread # 0 /\ Alive(workerThread))
    /\ state' = [InitialState EXCEPT !.error = state.error]
    /\ logs' = << >>
    /\ hpc' = [hpc EXCEPT ![h] = "create"]
    /\ UNCHANGED << workerThread, nThreads, statusResp, pc, files,
                    bi, bk, parsed, toAnalyze, trace, arg, result,
                    vision, nLog >>

\* lines 415-419
StartReset(h) ==
    /\ hpc[h] = "idle"
    /\ ~(workerThread # 0 /\ Alive(workerThread))
    /\ state' = InitialState
    /\ logs' = << >>
    /\ hpc' = [hpc EXCEPT ![h] = "create"]
    /\ UNCHANGED << workerThread, nThreads, statusResp, pc, files,
                    bi, bk, parsed, toAnalyze, trace, arg, result,
                    vision, nLog >>

\* line 420
StartCreate(h) ==
    /\ hpc[h] = "create"
    /\ nThreads' = nThreads + 1
    /\ workerThread' = nThreads + 1
    /\ pc' = [pc EXCEPT ![nThreads + 1] = "created"]
    /\ hpc' = [hpc EXCEPT ![h] = "start"]
    /\ UNCHANGED << state, statusResp, files, bi, bk, parsed,
                    toAnalyze, trace, arg, result,
                    vision, logs, nLog >>

\* lines 421-422: _worker_thread.start() on a Thread not yet started
StartLaunch(h) ==
    /\ hpc[h] = "start"
    /\ pc[workerThread] = "created"
    /\ pc' = [pc EXCEPT ![workerThread] = "begin"]
    /\ hpc' = [hpc EXCEPT ![h] = "started"]
    /\ UNCHANGED << state, workerThread, nThreads, statusResp, files, bi, bk,
                    parsed, toAnalyze, trace, arg, result,
                    vision, logs, nLog >>

\* line 421: _worker_thread.start() on a Thread another request started:
\* RuntimeError, the request fails
StartTwice(h) ==
    /\ hpc[h] = "start"
    /\ pc[workerThread] # "created"
    /\ hpc' = [hpc EXCEPT ![h] = "error"]
    /\ UNCHANGED << state, workerThread, nThreads, statusResp, pc, files, bi,
                    bk, parsed, toAnalyze, trace, arg, result,
                    vision, logs, nLog >>

\* GET /status, lines 425-436
Status ==
    /\ statusResp' = [code |-> 200, total |-> state.total,
                      processed |-> state.processed,
                      current_file |-> state.current_file,
                      logs |-> Last(logs, STATUS_LINES),
                      done |-> state.done, error |-> state.error]
    /\ UNCHANGED << state, workerThread, nThreads, hpc, pc, files, bi,
                    bk, parsed, toAnalyze, trace, arg, result,
                    vision, logs, nLog >>

(***************************************************************************)
(* worker_process, lines 280-403.  Each action is one lock block or one    *)
(* collaborator call with the local steps that follow it.                  *)
(***************************************************************************)
\* Batch cut one short: files[i:i + BATCH_SIZE - 1]
BatchOffByOne(t) ==
    SubSeq(files[t], bi[t] + 1, Min(bi[t] + BATCH_SIZE - 1, Len(files[t])))

\* line 325: batch = files[i:i + BATCH_SIZE]
Batch(t) ==
    SubSeq(files[t], bi[t] + 1, Min(bi[t] + BATCH_SIZE, Len(files[t])))

\* line 328: the f of `for f in batch`
CurFile(t) == Batch(t)[bk[t]]

\* lines 328, 386-387: the next f of the batch, or the pause after the batch
AfterItem(t) ==
    IF bk[t] < Len(Batch(t))
    THEN /\ bk' = [bk EXCEPT ![t] = @ + 1]
         /\ pc' = [pc EXCEPT ![t] = "item"]
    ELSE /\ bk' = bk
         /\ pc' = [pc EXCEPT ![t] = "sleep"]

\* lines 281-285
WorkerBegin(t) ==
    /\ pc[t] = "begin"
    /\ state' = [state EXCEPT !.done = FALSE, !.error = None,
                              !.processed = 0, !.current_file = 0]
    /\ pc' = [pc EXCEPT ![t] = "init"]
    /\ UNCHANGED << workerThread, nThreads, hpc, statusResp, files, bi,
                    bk, parsed, toAnalyze, trace, arg, result,
                    vision, logs, nLog >>

\* lines 287-289: get_google_services and ensure_sheet_headers return
InitOk(t) ==
    /\ pc[t] = "init"
    /\ pc' = [pc EXCEPT ![t] = "list"]
    /\ UNCHANGED << state, workerThread, nThreads, hpc, statusResp,
                    files, bi, bk, parsed, toAnalyze, trace, arg,
                    result, vision, logs, nLog >>

\* InitFail that records the error and forgets to end the run
InitFailNotDone(t) ==
    /\ pc[t] = "init"
    /\ state' = [state EXCEPT !.error = "init failed"]
    /\ pc' = [pc EXCEPT ![t] = "fatal"]
    /\ UNCHANGED << workerThread, nThreads, hpc, statusResp, files, bi,
                    bk, parsed, toAnalyze, trace, arg, result,
                    vision, logs, nLog >>

\* lines 290-295: get_google_services raises
InitFail(t) ==
    /\ pc[t] = "init"
    /\ state' = [state EXCEPT !.error = "init failed", !.done = TRUE]
    /\ pc' = [pc EXCEPT ![t] = "fatal"]
    /\ UNCHANGED << workerThread, nThreads, hpc, statusResp, files, bi,
                    bk, parsed, toAnalyze, trace, arg, result,
                    vision, logs, nLog >>

\* lines 300-303: the listing returns
ListOk(t) ==
    /\ pc[t] = "list"
    /\ files' = [files EXCEPT ![t] = Listing(toAnalyze)]
    /\ pc' = [pc EXCEPT ![t] = "total"]
    /\ UNCHANGED << state, workerThread, nThreads, hpc, statusResp, bi,
                    bk, parsed, toAnalyze, trace, arg, result,
                    vision, logs, nLog >>

\* lines 304-309: the listing raises
ListFail(t) ==
    /\ pc[t] = "list"
    /\ state' = [state EXCEPT !.error = "list failed", !.done = TRUE]
    /\ pc' = [pc EXCEPT ![t] = "fatal"]
    /\ UNCHANGED << workerThread, nThreads, hpc, statusResp, files, bi,
                    bk, parsed, toAnalyze, trace, arg, result,
                    vision, logs, nLog >>

\* lines 311-316 and 324-325: total is published, the first batch is cut
SetTotal(t) ==
    /\ pc[t] = "total"
    /\ state' = [state EXCEPT !.total = Len(files[t]), !.processed = 0]
    /\ bi' = [bi EXCEPT ![t] = 0]
    /\ bk' = [bk EXCEPT ![t] = 1]
    /\ pc' = [pc EXCEPT ![t] = IF Len(files[t]) = 0 THEN "empty" ELSE "item"]
    /\ UNCHANGED << workerThread, nThreads, hpc, statusResp, files,
                    parsed, toAnalyze, trace, arg, result,
                    vision, logs, nLog >>

\* lines 316-320: nothing to analyse
NoFiles(t) ==
    /\ pc[t] = "empty"
    /\ state' = [state EXCEPT !.done = TRUE]
    /\ pc' = [pc EXCEPT ![t] = "nofiles"]
    /\ UNCHANGED << workerThread, nThreads, hpc, statusResp, files, bi,
                    bk, parsed, toAnalyze, trace, arg, result,
                    vision, logs, nLog >>

\* lines 329-332
SetCurrent(t) ==
    /\ pc[t] = "item"
    /\ state' = [state EXCEPT !.current_file = CurFile(t)]
    /\ pc' = [pc EXCEPT ![t] = "download"]
    /\ UNCHANGED << workerThread, nThreads, hpc, statusResp, files, bi,
                    bk, parsed, toAnalyze, trace, arg, result,
                    vision, logs, nLog >>

\* lines 335-336: download_file_bytes returns the bytes
DownloadOk(t) ==
    /\ pc[t] = "download"
    /\ trace' = Log(t, Event("download", CurFile(t), TRUE))
    /\ pc' = [pc EXCEPT ![t] = "vision"]
    /\ UNCHANGED << state, workerThread, nThreads, hpc, statusResp,
                    files, bi, bk, parsed, toAnalyze, arg, result,
                    vision, logs, nLog >>

\* DownloadFail without the test of img_bytes: the item goes on to the API
DownloadFailGoesOn(t) ==
    /\ pc[t] = "download"
    /\ trace' = Log(t, Event("download", CurFile(t), FALSE))
    /\ pc' = [pc EXCEPT ![t] = "vision"]
    /\ UNCHANGED << state, workerThread, nThreads, hpc, statusResp,
                    files, bi, bk, parsed, toAnalyze, arg, result,
                    vision, logs, nLog >>

\* lines 335-337: download_file_bytes returns None (or no bytes)
DownloadFail(t) ==
    /\ pc[t] = "download"
    /\ trace' = Log(t, Event("download", CurFile(t), FALSE))
    /\ pc' = [pc EXCEPT ![t] = "skip"]
    /\ UNCHANGED << state, workerThread, nThreads, hpc, statusResp,
                    files, bi, bk, parsed, toAnalyze, arg, result,
                    vision, logs, nLog >>

\* lines 338-340: the item is counted and skipped
SkipCount(t) ==
    /\ pc[t] = "skip"
    /\ state' = [state EXCEPT !.processed = @ + 1]
    /\ trace' = Log(t, Event("count", CurFile(t), TRUE))
    /\ AfterItem(t)
    /\ UNCHANGED << workerThread, nThreads, hpc, statusResp, files, bi,
                    parsed, toAnalyze, arg, result,
                    vision, logs, nLog >>

\* lines 344-346: call_yandex_vision returns None
SubmitNone(t) ==
    /\ pc[t] = "vision"
    /\ trace' = Log(t, Event("submit", CurFile(t), FALSE))
    /\ pc' = [pc EXCEPT ![t] = "move"]
    /\ UNCHANGED << state, workerThread, nThreads, hpc, statusResp,
                    files, bi, bk, parsed, toAnalyze, arg, result,
                    vision, logs, nLog >>

\* lines 344-349: call_yandex_vision returns a response and
\* parse_yandex_result returns its record
SubmitParsed(t) ==
    /\ pc[t] = "vision"
    /\ \E r \in vision :
           /\ ~ParseOf[r].exc
           /\ parsed' = [parsed EXCEPT ![t] = ParseOf[r].rec]
    /\ trace' = Log(t, Event("submit", CurFile(t), TRUE))
    /\ pc' = [pc EXCEPT ![t] = "append"]
    /\ UNCHANGED << state, workerThread, nThreads, hpc, statusResp,
                    files, bi, bk, toAnalyze, arg, result,
                    vision, logs, nLog >>

\* lines 344-349: call_yandex_vision returns a response and
\* parse_yandex_result raises: nothing catches it, the thread ends
SubmitCrash(t) ==
    /\ pc[t] = "vision"
    /\ \E r \in vision : ParseOf[r].exc
    /\ trace' = Log(t, Event("submit", CurFile(t), TRUE))
    /\ pc' = [pc EXCEPT ![t] = "crashed"]
    /\ UNCHANGED << state, workerThread, nThreads, hpc, statusResp,
                    files, bi, bk, parsed, toAnalyze, arg, result,
                    vision, logs, nLog >>

\* lines 351-362: sheet.append_row returns
AppendOk(t) ==
    /\ pc[t] = "append"
    /\ trace' = Log(t, [Event("append", CurFile(t), TRUE)
                            EXCEPT !.row = Row(parsed[t], CurFile(t))])
    /\ pc' = [pc EXCEPT ![t] = "move"]
    /\ UNCHANGED << state, workerThread, nThreads, hpc, statusResp,
                    files, bi, bk, parsed, toAnalyze, arg, result,
                    vision, logs, nLog >>

\* AppendFail with the exception not caught per item: the run is aborted
AppendFailFatal(t) ==
    /\ pc[t] = "append"
    /\ trace' = Log(t, Event("append", CurFile(t), FALSE))
    /\ state' = [state EXCEPT !.error = "append failed", !.done = TRUE]
    /\ pc' = [pc EXCEPT ![t] = "fatal"]
    /\ UNCHANGED << workerThread, nThreads, hpc, statusResp,
                    files, bi, bk, parsed, toAnalyze, arg, result,
                    vision, logs, nLog >>

\* lines 351-364: sheet.append_row raises
AppendFail(t) ==
    /\ pc[t] = "append"
    /\ trace' = Log(t, Event("append", CurFile(t), FALSE))
    /\ pc' = [pc EXCEPT ![t] = "move"]
    /\ UNCHANGED << state, workerThread, nThreads, hpc, statusResp,
                    files, bi, bk, parsed, toAnalyze, arg, result,
                    vision, logs, nLog >>

\* lines 367-372: the file is moved to the analyzed folder
MoveOk(t) ==
    /\ pc[t] = "move"
    /\ toAnalyze' = toAnalyze \ {CurFile(t)}
    /\ trace' = Log(t, Event("move", CurFile(t), TRUE))
    /\ pc' = [pc EXCEPT ![t] = "count"]
    /\ UNCHANGED << state, workerThread, nThreads, hpc, statusResp,
                    files, bi, bk, parsed, arg, result,
                    vision, logs, nLog >>

\* lines 367-374: the move raises
MoveFail(t) ==
    /\ pc[t] = "move"
    /\ trace' = Log(t, Event("move", CurFile(t), FALSE))
    /\ pc' = [pc EXCEPT ![t] = "count"]
    /\ UNCHANGED << state, workerThread, nThreads, hpc, statusResp,
                    files, bi, bk, parsed, toAnalyze, arg, result,
                    vision, logs, nLog >>

\* lines 377-384
Count(t) ==
    /\ pc[t] = "count"
    /\ state' = [state EXCEPT !.processed = @ + 1]
    /\ trace' = Log(t, Event("count", CurFile(t), TRUE))
    /\ AfterItem(t)
    /\ UNCHANGED << workerThread, nThreads, hpc, statusResp, files, bi,
                    parsed, toAnalyze, arg, result,
                    vision, logs, nLog >>

\* Sleep that pauses between batches only, not after the last one
SleepSkipsLast(t) ==
    /\ pc[t] = "sleep"
    /\ IF bi[t] + BATCH_SIZE < Len(files[t])
       THEN /\ trace' = Log(t, Event("pause", 0, TRUE))
            /\ bi' = [bi EXCEPT ![t] = @ + BATCH_SIZE]
            /\ bk' = [bk EXCEPT ![t] = 1]
            /\ pc' = [pc EXCEPT ![t] = "item"]
       ELSE /\ UNCHANGED << bi, bk, trace >>
            /\ pc' = [pc EXCEPT ![t] = "finish"]
    /\ UNCHANGED << state, workerThread, nThreads, hpc, statusResp,
                    files, parsed, toAnalyze, arg, result,
                    vision, logs, nLog >>

\* lines 386-398 and 324-325: the pause, then the next batch if there is one
Sleep(t) ==
    /\ pc[t] = "sleep"
    /\ trace' = Log(t, Event("pause", 0, TRUE))
    /\ IF bi[t] + BATCH_SIZE < Len(files[t])
       THEN /\ bi' = [bi EXCEPT ![t] = @ + BATCH_SIZE]
            /\ bk' = [bk EXCEPT ![t] = 1]
            /\ pc' = [pc EXCEPT ![t] = "item"]
       ELSE /\ UNCHANGED << bi, bk >>
            /\ pc' = [pc EXCEPT ![t] = "finish"]
    /\ UNCHANGED << state, workerThread, nThreads, hpc, statusResp,
                    files, parsed, toAnalyze, arg, result,
                    vision, logs, nLog >>

\* lines 400-403
Finish(t) ==
    /\ pc[t] = "finish"
    /\ state' = [state EXCEPT !.done = TRUE, !.current_file = 0]
    /\ pc' = [pc EXCEPT ![t] = "finished"]
    /\ UNCHANGED << workerThread, nThreads, hpc, statusResp, files, bi,
                    bk, parsed, toAnalyze, trace, arg, result,
                    vision, logs, nLog >>

StartStep(h) ==
    \/ StartReject(h) \/ StartReset(h) \/ StartCreate(h)
    \/ StartLaunch(h) \/ StartTwice(h)

WorkerStep(t) ==
    \/ WorkerBegin(t) \/ InitOk(t) \/ InitFail(t) \/ ListOk(t) \/ ListFail(t)
    \/ SetTotal(t) \/ NoFiles(t) \/ SetCurrent(t)
    \/ DownloadOk(t) \/ DownloadFail(t) \/ SkipCount(t)
    \/ SubmitNone(t) \/ SubmitParsed(t) \/ SubmitCrash(t)
    \/ AppendOk(t) \/ AppendFail(t) \/ MoveOk(t) \/ MoveFail(t)
    \/ Count(t) \/ Sleep(t) \/ Finish(t)

Next ==
    \/ \E h \in Requests : StartStep(h)
    \/ \E t \in Threads : WorkerStep(t)

\* concurrent POST /start requests and the workers they start
Spec == Init /\ [][Next]_vars

\* one POST /start and its worker, alone
NextSeq ==
    \/ StartReset(1) \/ StartCreate(1) \/ StartLaunch(1)
    \/ WorkerStep(1)

SpecSeq == InitSeq /\ [][NextSeq]_vars

\* the same run when the API may recognise nothing in an image
SpecBare == InitBare /\ [][NextSeq]_vars

\* concurrent POST /start requests, their workers and GET /status
NextPoll == Next \/ Status

SpecPoll == InitPoll /\ [][NextPoll]_vars

(***************************************************************************)
(* parse_yandex_result called directly, on responses of many shapes.       *)
(***************************************************************************)
S_pump == << "p","u","m","p" >>
S_gear == << "g","e","a","r" >>
S_part == << " ","N","o"," ","A","B","-","1","2"," " >>
S_short == << "a","b"," ","1" >>
S_blank == << " "," " >>

Obj1(k, v) == JDict(<< << k, v >> >>)

\* what it["labels"] may be
LabelValues ==
    { JList(<< Obj1(K_description, JStr(S_pump)) >>),
      JList(<< Obj1(K_name, JStr(S_gear)), Obj1(K_description, JStr(S_pump)),
               Obj1(K_description, JStr(<< >>)) >>),
      JList(<< Obj1(K_description, JNum(5)) >>),
      JList(<< Obj1(K_description, JStr(S_gear)),
               Obj1(K_name, JList(<< JStr(S_pump) >>)) >>),
      JList(<< Obj1(K_description, JStr(S_pump)), JStr(S_gear) >>),
      JNum(3), JNull }

\* what it["textDetection"] may be
TextValues ==
    { Obj1(K_text, JStr(S_part)), Obj1(K_text, JStr(S_short)),
      Obj1(K_text, JStr(S_blank)), Obj1(K_text, JNum(7)),
      Obj1(K_text, JList(<< JStr(S_part) >>)), JStr(S_part) }

\* what it["objects"] may be
ObjectValues ==
    { JList(<< Obj1(K_name, JStr(S_gear)) >>),
      JList(<< Obj1(K_entityId, JNum(9)) >>),
      JList(<< JNull >>), JBool(TRUE) }

\* what it["annotations"] may be
AnnotationValues ==
    { JList(<< JDict(<< << K_type, JStr(V_LABEL) >>,
                        << K_description, JStr(S_gear) >> >>) >>),
      JList(<< Obj1(K_type, JStr(V_LABEL)) >>),
      JList(<< JDict(<< << K_type, JStr(V_LABEL) >>,
                        << K_description, JBool(TRUE) >> >>) >>) }

\* a key with one of its values, or the key left out
Pairs(k, values) == { << >> } \cup { << << k, v >> >> : v \in values }

\* {"results": [{"results": [it]}]}
Wrap(it) == Obj1(K_results, JList(<< Obj1(K_results, JList(<< it >>)) >>))

EntryInputs ==
    { Wrap(JDict(lp \o tp \o op \o ap)) :
        lp \in Pairs(K_labels, LabelValues),
        tp \in Pairs(K_textDetection, TextValues),
        op \in Pairs(K_objects, ObjectValues),
        ap \in Pairs(K_annotations, AnnotationValues) }

ShapeInputs ==
    { JNull, JDict(<< >>), JList(<< >>), JStr(<< >>), JNum(0), JBool(FALSE),
      JNum(7), JBool(TRUE), JStr(S_part), JList(<< JNum(1) >>),
      JList(<< Obj1(K_text, JStr(S_part)) >>),
      Obj1(K_results, JNum(4)),
      Obj1(K_results, JStr(S_gear)),
      Obj1(K_results, JList(<< JNum(1) >>)),
      Obj1(K_results, Obj1(K_text, JStr(S_part))),
      Obj1(K_responses, JList(<< Obj1(K_entities, JList(<<
          Obj1(K_labels, JList(<< Obj1(K_name, JStr(S_pump)) >>)) >>)) >>)),
      Obj1(K_results, JList(<< Obj1(K_results, JNum(2)) >>)),
      Obj1(K_results, JList(<< Obj1(K_results, JList(<< JNum(2) >>)) >>)),
      Wrap(JStr(K_labels)), Wrap(JStr(S_gear)),
      Wrap(JList(<< JStr(K_objects) >>)), Wrap(JList(<< JStr(S_gear) >>)),
      Wrap(JNull),
      Obj1(<< "T","e","x","t" >>, JStr(S_part)),
      Obj1(<< "f","u","l","l","T","E","X","T" >>, JStr(S_blank)),
      Obj1(K_name, JList(<< Obj1(K_text, JStr(S_short)),
                            Obj1(K_text, JNum(1)) >>)),
      JDict(<< << K_results, JList(<< Obj1(K_results, JList(<<
                   Obj1(K_labels, JList(<< Obj1(K_description,
                                                 JStr(S_pump)) >>)),
                   Obj1(K_labels, JStr(S_gear)) >>)) >>) >>,
               << K_text, JStr(S_part) >> >>) }

\* a response that is itself a record: {"catalog_number": "XK-77", ...}
S_catalog_number ==
    << "c","a","t","a","l","o","g","_","n","u","m","b","e","r" >>
S_direct == << "X","K","-","7","7" >>
S_line == << "C","a","t","a","l","o","g"," ","N","u","m","b","e","r",":",
             " ","Y","B","-","4","2" >>
S_other == << "N","o"," ","Y","B","-","4","2" >>

DirectInputs ==
    { JDict(<< << S_catalog_number, JStr(S_direct) >> >> \o tp) :
        tp \in Pairs(K_text, {JStr(S_line), JStr(S_other), JStr(S_blank)}) }

ParseInputs == EntryInputs \cup ShapeInputs \cup DirectInputs

InitParse ==
    /\ InitWith(0)
    /\ arg \in ParseInputs
    /\ result = [called |-> FALSE]

\* lines 143-250: one call, which returns a record or raises
ParseCall ==
    /\ ~result.called
    /\ result' = IF ParseRaises(arg)
                 THEN [called |-> TRUE, raised |-> TRUE]
                 ELSE [called |-> TRUE, raised |-> FALSE,
                       rec |-> parse_yandex_result(arg)]
    /\ UNCHANGED << state, workerThread, nThreads, hpc, statusResp, pc, files,
                    bi, bk, parsed, toAnalyze, trace, arg,
                    vision, logs, nLog >>

NextParse == ParseCall

SpecParse == InitParse /\ [][NextParse]_vars

(***************************************************************************)
(* append_log, lines 49-56, called directly on a log that earlier calls    *)
(* filled, and /status reading it.                                         *)
(***************************************************************************)
LogTexts == {"INFO", "ERROR"}

\* the lengths of the log the calls start from
LogStarts ==
    {0, 1, STATUS_LINES - 1, STATUS_LINES, STATUS_LINES + 1,
     LOG_KEEP, LOG_LIMIT - 2, LOG_LIMIT - 1, LOG_LIMIT}

InitLog ==
    /\ \E n \in LogStarts :
           InitService(0, SampleResponses,
                       [j \in 1..n |-> LogLine(j, "INFO")])
    /\ NoCall

\* the time of the next call: after every line of the log
NextTs == IF logs = << >> THEN 1 ELSE logs[Len(logs)].ts + 1

\* append_log that keeps the oldest lines: state["logs"][:800]
append_log_keeps_oldest(text) ==
    /\ nLog < MaxLogCalls
    /\ nLog' = nLog + 1
    /\ logs' = LET all == Append(logs, LogLine(NextTs, text))
               IN  IF Len(all) > LOG_LIMIT THEN SubSeq(all, 1, LOG_KEEP)
                   ELSE all
    /\ UNCHANGED << state, workerThread, nThreads, hpc, statusResp, pc,
                    files, bi, bk, parsed, toAnalyze, trace, arg, result,
                    vision >>

\* lines 49-56
append_log(text) ==
    /\ nLog < MaxLogCalls
    /\ nLog' = nLog + 1
    /\ logs' = LET all == Append(logs, LogLine(NextTs, text))
               IN  IF Len(all) > LOG_LIMIT THEN Last(all, LOG_KEEP)
                   ELSE all
    /\ UNCHANGED << state, workerThread, nThreads, hpc, statusResp, pc,
                    files, bi, bk, parsed, toAnalyze, trace, arg, result,
                    vision >>

NextLog == (\E text \in LogTexts : append_log(text)) \/ Status

SpecLog == InitLog /\ [][NextLog]_vars

(***************************************************************************)
(* What a worker did, read off its trace.                                  *)
(***************************************************************************)
Listed(t) == Range(files[t])

\* the place of a listed file in the listing
Pos(t, f) == CHOOSE j \in 1..Len(files[t]) : files[t][j] = f

\* the places in the trace of the calls `op` for file f
Calls(t, op, f) ==
    {q \in 1..Len(trace[t]) : trace[t][q].op = op /\ trace[t][q].f = f}

Did(t, op, f) == Calls(t, op, f) # {}
DidOk(t, op, f) == \E q \in Calls(t, op, f) : trace[t][q].ok
DidFail(t, op, f) == \E q \in Calls(t, op, f) : ~trace[t][q].ok

\* the rows the worker appended for file f
RowsFor(t, f) == {q \in Calls(t, "append", f) : trace[t][q].ok}

\* the pauses before place q of the trace
PausesBefore(t, q) ==
    Cardinality({r \in 1..(q - 1) : trace[t][r].op = "pause"})

\* the downloads before place q of the trace
DownloadsBefore(t, q) ==
    Cardinality({r \in 1..(q - 1) : trace[t][r].op = "download"})

\* the run returned at line 403
Finished(t) == pc[t] = "finished"

\* the worker is at file f, past line 332
AtFile(t, f) ==
    /\ pc[t] \in {"download", "skip", "vision", "append", "move", "count"}
    /\ CurFile(t) = f

RowAllUnknown(row) == \A j \in 1..7 : row[j] = JStr(V_UNKNOWN)

(***************************************************************************)
(* C1.  After a run in which the listing succeeded, every listed item has  *)
(* exactly one row appended, and an item whose submission to the model     *)
(* failed has a row whose seven fields are all "UNKNOWN".                  *)
(***************************************************************************)
C1_OneRowPerItem ==
    \A t \in Threads :
        Finished(t) =>
            \A f \in Listed(t) :
                /\ Cardinality(RowsFor(t, f)) = 1
                /\ DidFail(t, "submit", f) =>
                       \A q \in RowsFor(t, f) : RowAllUnknown(trace[t][q].row)

(***************************************************************************)
(* C2.  When get_google_services or the listing raises, that step leaves   *)
(* state.done true and state.error set, and the run has touched no item:   *)
(* no download, submission, append or move, no increment of                *)
(* state.processed (which is 0 when no other worker was ever started).     *)
(***************************************************************************)
C2_FatalStep ==
    \A t \in Threads :
        (pc[t] # "fatal" /\ pc'[t] = "fatal") =>
            /\ state'.done /\ state'.error # None
            /\ state'.processed = state.processed
            /\ toAnalyze' = toAnalyze
            /\ (\A u \in Threads \ {t} : pc[u] = "none") =>
                   state'.processed = 0

C2_FatalRun ==
    /\ [](\A t \in Threads :
              pc[t] = "fatal" => trace[t] = << >> /\ files[t] = << >>)
    /\ [][C2_FatalStep]_vars

C2_Witness ==
    \E t \in Threads :
        pc[t] = "fatal" /\ state.done /\ state.error = "list failed"

(***************************************************************************)
(* C3.  Every run reaches state.done = true: when the worker thread of the *)
(* run has ended, state.done is true.                                      *)
(***************************************************************************)
C3_EndedRunIsDone ==
    \A t \in Threads : pc[t] \in DeadPcs => state.done

(***************************************************************************)
(* C4.  A failed append or move of an item f is not fatal: state.error     *)
(* stays None, the thread does not end at f, f is counted in               *)
(* state.processed, and the run goes on to download the next item (and     *)
(* to submit it when the download gave bytes); a run that returns has      *)
(* downloaded every later item.                                            *)
(***************************************************************************)
SinkFailed(t, f) == DidFail(t, "append", f) \/ DidFail(t, "move", f)

CountedSoFar(t) ==
    Cardinality({q \in 1..Len(trace[t]) : trace[t][q].op = "count"})

C5_ExactlyOnce ==
    \A t \in Threads : \A f \in Listed(t) :
        /\ \A op \in {"download", "submit", "append", "move", "count"} :
               Cardinality(Calls(t, op, f)) <= 1
        /\ pc[t] \in DeadPcs => Cardinality(Calls(t, "count", f)) = 1

(***************************************************************************)
(* C6.  Under any interleaving of concurrent /start requests, two worker   *)
(* threads are never alive at the same time.                               *)
(***************************************************************************)
C6_SingleWorker ==
    Cardinality({t \in Threads : Alive(t)}) <= 1

(***************************************************************************)
(* C7.  No /status response reports an error together with done = false.  *)
(***************************************************************************)
C7_StatusConsistent ==
    statusResp.code = 200 =>
        ~(statusResp.error # None /\ statusResp.done = FALSE)

C7_Witness ==
    /\ statusResp.code = 200
    /\ statusResp.error # None /\ statusResp.done
    /\ \E t \in Threads : Alive(t)

(***************************************************************************)
(* C8.  The items are processed in listing order, in consecutive groups of *)
(* BATCH_SIZE with the remainder last: the downloads follow the listing,   *)
(* the g-th pause comes when Min(g * BATCH_SIZE, total) items have been    *)
(* downloaded, and the rows are appended in listing order.                 *)
(***************************************************************************)
C8_ListingOrder ==
    \A t \in Threads :
        \A q \in 1..Len(trace[t]) :
            LET e == trace[t][q]
            IN  /\ e.op = "download" =>
                       e.f = files[t][DownloadsBefore(t, q) + 1]
                /\ e.op = "pause" =>
                       DownloadsBefore(t, q) =
                           Min((PausesBefore(t, q) + 1) * BATCH_SIZE,
                               Len(files[t]))
                /\ e.op = "append" =>
                       \A r \in 1..(q - 1) :
                           trace[t][r].op = "append" =>
                               Pos(t, trace[t][r].f) < Pos(t, e.f)

C8_Witness ==
    \E t \in Threads :
        /\ Finished(t) /\ Len(files[t]) = 5
        /\ \A f \in Listed(t) : Cardinality(RowsFor(t, f)) = 1
        /\ CountedSoFar(t) = 5
        /\ Cardinality({q \in 1..Len(trace[t]) : trace[t][q].op = "pause"}) = 3

(***************************************************************************)
(* C9.  A pause follows every completed group whatever happened in it, and *)
(* no item of group N+1 is downloaded, submitted, appended, moved or       *)
(* counted before the pause after group N.                                 *)
(***************************************************************************)
GroupOf(t, f) == (Pos(t, f) - 1) \div BATCH_SIZE

\* the groups of the listing whose last item has been counted
CompletedGroups(t) ==
    Cardinality({f \in Listed(t) :
                    /\ Did(t, "count", f)
                    /\ \/ Pos(t, f) % BATCH_SIZE = 0
                       \/ Pos(t, f) = Len(files[t])})

C9_PauseAfterGroup ==
    \A t \in Threads :
        /\ \A q \in 1..Len(trace[t]) :
               trace[t][q].op # "pause" =>
                   PausesBefore(t, q) = GroupOf(t, trace[t][q].f)
        /\ \A f \in Listed(t) :
               AtFile(t, f) => PausesBefore(t, Len(trace[t]) + 1) = GroupOf(t, f)
        /\ \/ PausesBefore(t, Len(trace[t]) + 1) = CompletedGroups(t)
           \/ /\ pc[t] = "sleep"
              /\ PausesBefore(t, Len(trace[t]) + 1) + 1 = CompletedGroups(t)

C9_Witness ==
    \E t \in Threads :
        /\ Finished(t) /\ Len(files[t]) >= 3
        /\ DidFail(t, "download", files[t][1])
        /\ DidFail(t, "submit", files[t][2])
        /\ PausesBefore(t, Len(trace[t]) + 1) = 2

(***************************************************************************)
(* C10.  For every input parse_yandex_result returns, without raising, a   *)
(* record whose seven fields are all present and non-empty.                *)
(***************************************************************************)
RecordFields ==
    {"catalog_number", "description", "machine_type", "manufacturer",
     "analogs", "detail_description", "machine_model"}

C10_ParseTotal ==
    result.called =>
        /\ ~result.raised
        /\ DOMAIN result.rec = RecordFields
        /\ \A k \in RecordFields : Truthy(result.rec[k])

(***************************************************************************)
(* C12.  Every request to move an item to the analyzed folder comes after  *)
(* the append of that item's row was invoked (whether or not it failed).   *)
(***************************************************************************)
C12_MoveAfterAppend ==
    \A t \in Threads :
        \A q \in 1..Len(trace[t]) :
            trace[t][q].op = "move" =>
                \E r \in 1..(q - 1) :
                    /\ trace[t][r].op = "append"
                    /\ trace[t][r].f = trace[t][q].f

(***************************************************************************)
(* C13.  An item whose successful response extracts to a record of         *)
(* sentinels only is resubmitted until the budget of 3 submissions is      *)
(* used: a row whose seven fields are all "UNKNOWN" is appended only after *)
(* 3 submissions of the item.                                              *)
(***************************************************************************)
C13_RetryOnAllSentinel ==
    \A t \in Threads : \A f \in Listed(t) :
        \A q \in RowsFor(t, f) :
            RowAllUnknown(trace[t][q].row) =>
                Cardinality(Calls(t, "submit", f)) = 3

(***************************************************************************)
(* C14.  For a response that is a record with the key catalog_number, the  *)
(* catalog_number returned is the value of that key, whatever catalog      *)
(* number the texts of the response would give.                            *)
(***************************************************************************)
C14_DirectObjectFirst ==
    (/\ result.called
     /\ arg.t = "dict"
     /\ HasKey(arg, S_catalog_number)) =>
        /\ ~result.raised
        /\ result.rec.catalog_number = DictGet(arg, S_catalog_number, JNull)

(***************************************************************************)
(* C15.  A run can be stopped between batches: in every state where the    *)
(* worker stands between two batches (the pause of a batch that is not the *)
(* last), it is able to go to the end of the run instead of starting the   *)
(* next batch.                                                             *)
(***************************************************************************)
C15_CanHaltBetweenBatches ==
    \A t \in Threads :
        (pc[t] = "sleep" /\ bi[t] + BATCH_SIZE < Len(files[t])) =>
            ENABLED (WorkerStep(t) /\ pc'[t] = "finish")

(***************************************************************************)
(* C16.  In every reachable state, under any interleaving of /start        *)
(* requests and worker steps, 0 <= state.processed <= state.total.         *)
(***************************************************************************)
C16_ProcessedWithinTotal ==
    /\ 0 <= state.processed
    /\ state.processed <= state.total

(***************************************************************************)
(* C17.  Whenever state.done is true, state.processed equals state.total   *)
(* and state.current_file is empty.                                        *)
(***************************************************************************)
C17_DoneMeansAllCounted ==
    state.done =>
        /\ state.processed = state.total
        /\ state.current_file = 0

(***************************************************************************)
(* C18.  state.logs never holds more than 1000 lines; an append_log call   *)
(* puts its line last, and when the log held 1000 lines it leaves the 800  *)
(* most recent: the last 799 of before, in their order, and the new line;  *)
(* /status returns a tail of the log of at most 200 lines.                 *)
(***************************************************************************)
C18_AppendStep ==
    nLog' = nLog + 1 =>
        /\ logs' # << >>
        /\ logs'[Len(logs')].ts = NextTs
        /\ Len(logs) = 1000 =>
               /\ Len(logs') = 800
               /\ \A j \in 1..799 : logs'[j] = logs[201 + j]

C18_StatusStep ==
    statusResp' # statusResp =>
        LET tail == statusResp'.logs
        IN  /\ Len(tail) <= 200
            /\ tail = SubSeq(logs, Len(logs) - Len(tail) + 1, Len(logs))

C18_LogBounded ==
    /\ [](Len(logs) <= 1000)
    /\ [][C18_AppendStep]_vars
    /\ [][C18_StatusStep]_vars

C18_Witness ==
    /\ Len(logs) = 800 /\ logs[1].ts = 202 /\ logs[800].ts = 1001
    /\ statusResp.code = 200 /\ Len(statusResp.logs) = 200
    /\ statusResp.logs[200].ts = 1001

(***************************************************************************)
(* C19.  An item f whose download failed is counted in state.processed,    *)
(* is never submitted, appended or moved and stays in the to-analyze       *)
(* folder; once it is counted the worker is at the next item of the same   *)
(* batch, with no pause in between.                                        *)
(***************************************************************************)
C19_DownloadFailureSkips ==
    \A t \in Threads : \A f \in Listed(t) :
        DidFail(t, "download", f) =>
            /\ ~Did(t, "submit", f) /\ ~Did(t, "append", f)
            /\ ~Did(t, "move", f)
            /\ f \in toAnalyze
            /\ Did(t, "count", f) \/ (pc[t] = "skip" /\ CurFile(t) = f)
            /\ state.processed = CountedSoFar(t)
            /\ \A g \in Listed(t) :
                   (/\ Pos(t, g) = Pos(t, f) + 1
                    /\ GroupOf(t, g) = GroupOf(t, f)
                    /\ Did(t, "count", f)) =>
                       /\ \/ Did(t, "download", g)
                          \/ pc[t] \in {"item", "download"} /\ CurFile(t) = g
                       /\ \A q \in Calls(t, "download", g) :
                              \A r \in Calls(t, "download", f) :
                                  PausesBefore(t, q) = PausesBefore(t, r)

C19_Witness ==
    \E t \in Threads :
        /\ Finished(t) /\ Len(files[t]) >= 2
        /\ DidFail(t, "download", files[t][1])
        /\ DidOk(t, "move", files[t][2])
        /\ files[t][1] \in toAnalyze /\ files[t][2] \notin toAnalyze
        /\ state.processed = Len(files[t])

=============================================================================
